---- MODULE Spec2Model ----
(***************************************************************************)
(* The Deep Q-Network agent of src/src/dqn/agent.py as a state machine.    *)
(*                                                                         *)
(* Real-valued quantities (Python floats, tensor entries) are fixed-point  *)
(* numbers in units of 1/Scale: 1.0 is Scale, 0.995 is 9950, 0.01 is 100.  *)
(* A product is rounded to the nearest unit, as a float product is rounded *)
(* to the nearest float; sums of fixed-point numbers are exact.            *)
(*                                                                         *)
(* The estimators (src.dqn.network.QNetwork) are tables: the parameters of *)
(* an estimator are its per-state, per-action values, so that              *)
(* qnet(state)[a] = qnet[state][a].  The replay memories                   *)
(* (src.dqn.memory) are sequences, oldest transition first.                *)
(***************************************************************************)
EXTENDS Integers, Sequences, FiniteSets, TLC

\* The fixed-point unit: 1.0 = Scale.
Scale == 100 * 100

\* Bounds of the model.
MaxActs == 2
MaxSteps == 4
MaxEpisode == 6

Max(a, b) == IF a >= b THEN a ELSE b
Min(a, b) == IF a <= b THEN a ELSE b

\* a * b of two fixed-point numbers, rounded to the nearest unit. The product
\* is split so that no intermediate value leaves the 32-bit range.
FMul(a, b) == (a \div Scale) * b + ((a % Scale) * b + Scale \div 2) \div Scale

RECURSIVE Sum(_)
Sum(s) == IF s = <<>> THEN 0 ELSE Head(s) + Sum(Tail(s))

\* torch mean of a one-dimensional tensor, rounded to the nearest unit.
Mean(s) == (2 * Sum(s) + Len(s)) \div (2 * Len(s))

-----------------------------------------------------------------------------
(* Inputs *)

States == {0, 1}
ActionIds == {0, 1}

\* An estimator's parameters: [state -> [action -> value]].
P0 == [s \in States |-> [a \in ActionIds |-> 0]]
P1 == [s \in States |-> [a \in ActionIds |-> IF a = s THEN 0 ELSE Scale]]
P2 == [s \in States |-> [a \in ActionIds |->
          IF s = 0 THEN 2 * Scale ELSE IF a = 0 THEN 0 - Scale ELSE Scale \div 2]]
ParamTables == {P0, P2}

\* Transitions the environment hands to step (states already preprocessed).
Tr(s, a, r, ns, d) ==
    [state |-> s, action |-> a, reward |-> r, next_state |-> ns, done |-> d]
SeedTransition == Tr(0, 0, 0, 1, 0)
TransitionInputs ==
    { Tr(1, 1, Scale, 0, 0), Tr(1, 0, 5 * Scale, 1, 1) }

\* Values random.random() returns, in [0.0, 1.0).
RandomDraws == {0, Scale - 1}

\* Importance-sampling weights a prioritized sample may carry, in (0, 1].
ImportanceWeights == {Scale \div 2, Scale}

Episodes == 0 .. MaxEpisode

\* Constructor arguments. Default holds the defaults of Agent.__init__;
\* small_eps (1e-5) is below the fixed-point resolution and is one unit.
Default ==
    [ action_size |-> 2, prioritized_memory |-> FALSE,
      memory_size |-> 100000, batch_size |-> 64, gamma |-> 9900, tau |-> 10,
      small_eps |-> 1, update_every |-> 4, epsilon_enabled |-> TRUE,
      epsilon_start |-> Scale, epsilon_end |-> 100, epsilon_decay |-> 9950,
      stored |-> 0 ]

Configs ==
    { \* the defaults, with 100 transitions already stored
      [Default EXCEPT !.stored = 100],
      \* uniform memory, a batch of two, learning every second step
      [Default EXCEPT !.memory_size = 3, !.batch_size = 2, !.update_every = 2,
                      !.tau = Scale \div 2, !.epsilon_end = Scale \div 4,
                      !.epsilon_decay = Scale \div 2],
      \* prioritized memory, exploration disabled
      [Default EXCEPT !.prioritized_memory = TRUE, !.memory_size = 2,
                      !.batch_size = 1, !.update_every = 2, !.tau = Scale,
                      !.epsilon_enabled = FALSE],
      \* prioritized memory, epsilon_start < epsilon_end
      [Default EXCEPT !.prioritized_memory = TRUE, !.memory_size = 3,
                      !.batch_size = 1, !.update_every = 3, !.tau = 0,
                      !.epsilon_start = 0, !.epsilon_end = Scale \div 4],
      \* a memory no larger than a batch, epsilon_decay > 1
      [Default EXCEPT !.memory_size = 1, !.batch_size = 1, !.update_every = 1,
                      !.epsilon_start = Scale \div 4, !.epsilon_end = Scale \div 8,
                      !.epsilon_decay = 2 * Scale] }

-----------------------------------------------------------------------------
VARIABLES
    cfg,          \* the constructor's arguments (self.batch_size, self.tau, ...)
    epsilon,      \* self.epsilon
    t_step,       \* self.t_step
    memory,       \* self.memory: the stored transitions, oldest first
    priorities,   \* the prioritized memory's priority per slot
    losses,       \* self.losses
    qnet_local,   \* parameters of self.qnet_local
    qnet_target,  \* parameters of self.qnet_target
    disk,         \* the checkpoint file save_model writes and load_model reads
    last,         \* the most recent call: its arguments, result and sub-calls
    nacts,        \* number of act calls so far
    nsteps        \* number of step calls so far

vars == <<cfg, epsilon, t_step, memory, priorities, losses, qnet_local,
          qnet_target, disk, last, nacts, nsteps>>

\* The record of a call, before its fields are filled in.
NoCall ==
    [ op |-> "none", raised |-> FALSE, arg |-> 0, result |-> 0, args |-> <<>>,
      learn_calls |-> 0, index |-> <<>>, weights |-> <<>>, Q_targets |-> <<>>,
      Q_expected |-> <<>>, new_priorities |-> <<>>, stepped |-> P0 ]

-----------------------------------------------------------------------------
(* Agent.__init__ *)

\* Mutant of InitEpsilon: epsilon starts at epsilon_start whatever the flag.
InitEpsilonAlwaysStart(enabled, start) == start

\* __init__, "Initialize epsilon".
InitEpsilon(enabled, start) == IF enabled THEN start ELSE 0

\* PrioritizedMemory's priority of a transition it has not sampled yet.
InitialPriority(pri) == Scale

\* The agent Agent(**c) constructs.
Constructed(c) ==
    /\ cfg = c
    /\ epsilon = InitEpsilon(cfg.epsilon_enabled, cfg.epsilon_start)
    /\ t_step = 0
    /\ memory = [i \in 1 .. cfg.stored |-> SeedTransition]
    /\ priorities = IF cfg.prioritized_memory
                    THEN [i \in 1 .. cfg.stored |-> Scale] ELSE <<>>
    /\ losses = <<>>
    /\ qnet_local = P1
    /\ qnet_target = qnet_local
    /\ disk = [exists |-> FALSE, params |-> P0]
    /\ last = NoCall
    /\ nacts = 0
    /\ nsteps = 0

Init == \E c \in Configs : Constructed(c)

-----------------------------------------------------------------------------
(* Agent.decay_eps, Agent.act *)

\* Mutant of decay_eps: min where the code has max.
decay_eps_min(eps, epsilon_end, epsilon_decay) ==
    Min(epsilon_end, FMul(epsilon_decay, eps))

\* Mutant of decay_eps: the decay applied twice per call.
decay_eps_twice(eps, epsilon_end, epsilon_decay) ==
    Max(epsilon_end, FMul(epsilon_decay, FMul(epsilon_decay, eps)))

decay_eps(eps, epsilon_end, epsilon_decay) ==
    Max(epsilon_end, FMul(epsilon_decay, eps))

\* np.argmax: the first index of a maximal entry.
ArgMax(v) ==
    CHOOSE i \in DOMAIN v :
        /\ \A j \in DOMAIN v : v[j] <= v[i]
        /\ \A j \in DOMAIN v : j < i => v[j] < v[i]

\* The epsilon-greedy choice: r is random.random(), a is random.randrange.
SelectAction(enabled, eps, r, a, action_values) ==
    IF enabled /\ r < eps THEN a ELSE ArgMax(action_values)

\* Epsilon after act.
ActEpsilon(enabled, eps, epsilon_end, epsilon_decay) ==
    IF enabled THEN decay_eps(eps, epsilon_end, epsilon_decay) ELSE eps

ActCall ==
    \E state \in States, r \in RandomDraws, a \in ActionIds :
        /\ epsilon' = ActEpsilon(cfg.epsilon_enabled, epsilon,
                                 cfg.epsilon_end, cfg.epsilon_decay)
        /\ last' = [NoCall EXCEPT !.op = "act", !.arg = state,
                       !.result = SelectAction(cfg.epsilon_enabled, epsilon, r, a,
                                               qnet_local[state])]
        /\ UNCHANGED <<cfg, t_step, memory, priorities, losses, qnet_local,
                       qnet_target, disk, nsteps>>

Act ==
    /\ nacts < MaxActs
    /\ nacts' = nacts + 1
    /\ ActCall

-----------------------------------------------------------------------------
(* Agent.get_beta *)

\* Mutant of GetBetaRaises: the check of the memory variant left out.
GetBetaNeverRaises(prioritized_memory) == FALSE

\* "if not self.prioritized_memory: raise TypeError(...)".
GetBetaRaises(prioritized_memory) == ~prioritized_memory

\* beta_growth ** i.
RECURSIVE Pow(_, _)
Pow(g, i) == IF i = 0 THEN Scale ELSE FMul(Pow(g, i - 1), g)

\* Mutant of get_beta: max where the code has min.
get_beta_max(i, beta_start, beta_end, beta_growth) ==
    Max(FMul(beta_start, Pow(beta_growth, i)), beta_end)

\* The value get_beta returns when it does not raise.
get_beta(i, beta_start, beta_end, beta_growth) ==
    Min(FMul(beta_start, Pow(beta_growth, i)), beta_end)

\* get_beta's defaults: beta_start = 0.4, beta_end = 1, beta_growth = 1.05.
BetaDefaults == <<4000, Scale, 10500>>

\* The <<beta_start, beta_end, beta_growth>> a caller passes.
BetaArgs ==
    { BetaDefaults, <<4000, 5000, 10500>>, <<8000, Scale, 15000>>,
      <<4000, Scale, 5000>>, <<12000, Scale, 10500>> }

GetBetaCall(episodes, args) ==
    \E i \in episodes, b \in args :
        /\ last' = IF GetBetaRaises(cfg.prioritized_memory)
                   THEN [NoCall EXCEPT !.op = "get_beta", !.arg = i, !.args = b,
                                       !.raised = TRUE]
                   ELSE [NoCall EXCEPT !.op = "get_beta", !.arg = i, !.args = b,
                                       !.result = get_beta(i, b[1], b[2], b[3])]
        /\ UNCHANGED <<cfg, epsilon, t_step, memory, priorities, losses,
                       qnet_local, qnet_target, disk, nacts, nsteps>>

-----------------------------------------------------------------------------
\* get_beta(i) with the defaults, as step calls it.
GetBeta == GetBetaCall({0, MaxEpisode}, {BetaDefaults})

\* get_beta(i, beta_start, beta_end, beta_growth).
GetBetaWith == GetBetaCall(Episodes, BetaArgs)

-----------------------------------------------------------------------------
(* The replay memories *)

\* memory.add: the oldest transition leaves a full memory.
MemoryAdd(mem, tr, capacity) ==
    IF Len(mem) >= capacity THEN Append(Tail(mem), tr) ELSE Append(mem, tr)

\* memory.sample: the slots of a batch of k of the n stored transitions. Every
\* batch of a memory of at most 8 is enumerated; a larger memory hands out its
\* k oldest or its k newest slots only.
SampleIndices(n, k) ==
    IF n <= 8
    THEN { f \in [1 .. k -> 1 .. n] : \A i, j \in 1 .. k : i < j => f[i] < f[j] }
    ELSE { [j \in 1 .. k |-> o + j] : o \in {0, n - k} }

\* The importance-sampling weights of a prioritized batch of k: any weights
\* in (0, 1], whatever the exponent beta of the sample.
SampleWeights(prioritized_memory, k) ==
    IF prioritized_memory THEN [1 .. k -> ImportanceWeights] ELSE {<<>>}

\* memory.update_priority: overwrite the priorities of the sampled slots.
UpdatePriority(pri, index, values) ==
    [s \in DOMAIN pri |->
        IF \E i \in DOMAIN index : index[i] = s
        THEN values[CHOOSE i \in DOMAIN index : index[i] = s]
        ELSE pri[s]]

-----------------------------------------------------------------------------
(* Agent.learn, Agent.mse_loss_prioritized, Agent.soft_update *)

\* tensor.max(1)[0]: the largest entry of a value vector.
MaxQ(v) == v[ArgMax(v)]

\* Mutant of QTarget: the (1 - dones) factor left out.
QTargetIgnoringDone(reward, gamma, q_next, done) == reward + FMul(gamma, q_next)

\* One sample's target: rewards + (gamma * Q_targets_next * (1 - dones)).
QTarget(reward, gamma, q_next, done) == reward + FMul(gamma, q_next) * (1 - done)

QTargets(target, gamma, batch) ==
    [i \in DOMAIN batch |->
        QTarget(batch[i].reward, gamma, MaxQ(target[batch[i].next_state]),
                batch[i].done)]

\* self.qnet_local(states).gather(1, actions).
QExpected(local, batch) ==
    [i \in DOMAIN batch |-> local[batch[i].state][batch[i].action]]

\* F.mse_loss(..., reduce=False): the per-sample squared errors.
SquaredErrors(Qe, Qt) ==
    [i \in DOMAIN Qe |-> FMul(Qe[i] - Qt[i], Qe[i] - Qt[i])]

\* F.mse_loss(Q_expected, Q_targets).
MseLoss(Qe, Qt) == Mean(SquaredErrors(Qe, Qt))

\* mse_loss_prioritized, "losses".
PrioritizedLosses(Qe, Qt, weights) ==
    [i \in DOMAIN Qe |-> FMul(SquaredErrors(Qe, Qt)[i], weights[i])]

\* mse_loss_prioritized: the priorities handed to memory.update_priority.
NewPriorities(Qe, Qt, weights, small_eps) ==
    [i \in DOMAIN Qe |-> PrioritizedLosses(Qe, Qt, weights)[i] + small_eps]

\* The parameters optimizer.step() may leave in the local estimator.
OptimizerStep(local) == ParamTables

\* Mutant of SoftParam: the roles of tau and 1 - tau exchanged.
SoftParamSwapped(tau, local_param, target_param) ==
    FMul(Scale - tau, local_param) + FMul(tau, target_param)

\* soft_update: one target parameter.
SoftParam(tau, local_param, target_param) ==
    FMul(tau, local_param) + FMul(Scale - tau, target_param)

\* soft_update: both estimators' parameters after the loop over the pairs.
soft_update(target, local, tau) ==
    [ qnet_target |->
        [s \in DOMAIN target |->
            [a \in DOMAIN target[s] |->
                SoftParam(tau, local[s][a], target[s][a])]],
      qnet_local |-> local ]

\* learn(experiences): experiences are the slots index of mem, with weights,
\* sampled with exponent beta; stepped are the local parameters
\* optimizer.step() leaves.
Learn(mem, pri, index, weights, beta, stepped) ==
    LET batch == [i \in DOMAIN index |-> mem[index[i]]]
        Qt == QTargets(qnet_target, cfg.gamma, batch)
        Qe == QExpected(qnet_local, batch)
        loss == IF cfg.prioritized_memory
                THEN Mean(PrioritizedLosses(Qe, Qt, weights))
                ELSE MseLoss(Qe, Qt)
    IN  /\ priorities' = IF cfg.prioritized_memory
                         THEN UpdatePriority(pri, index,
                                  NewPriorities(Qe, Qt, weights, cfg.small_eps))
                         ELSE pri
        /\ losses' = Append(losses, loss)
        /\ qnet_local' = soft_update(qnet_target, stepped, cfg.tau).qnet_local
        /\ qnet_target' = soft_update(qnet_target, stepped, cfg.tau).qnet_target
        /\ last' = [NoCall EXCEPT !.op = "step", !.learn_calls = 1,
                       !.result = beta, !.index = index, !.weights = weights,
                       !.Q_targets = Qt, !.Q_expected = Qe, !.stepped = stepped,
                       !.new_priorities =
                           IF cfg.prioritized_memory
                           THEN NewPriorities(Qe, Qt, weights, cfg.small_eps)
                           ELSE <<>>]

-----------------------------------------------------------------------------
(* Agent.step *)

\* Mutant of ShouldLearn: >= where the code has >.
ShouldLearnAtBatchSize(t, len, batch_size) == t = 0 /\ len >= batch_size

\* "if self.t_step == 0: if len(self.memory) > self.batch_size:".
ShouldLearn(t, len, batch_size) == t = 0 /\ len > batch_size

\* self.t_step after step.
NextTStep(t, update_every) == (t + 1) % update_every

Step ==
    /\ nsteps < MaxSteps
    /\ nsteps' = nsteps + 1
    /\ \E tr \in TransitionInputs, episode \in {0, MaxEpisode} :
        LET mem == MemoryAdd(memory, tr, cfg.memory_size)
            pri == IF cfg.prioritized_memory
                   THEN MemoryAdd(priorities, InitialPriority(priorities),
                                  cfg.memory_size)
                   ELSE priorities
            t == NextTStep(t_step, cfg.update_every)
            \* self.get_beta(episode), handed to memory.sample
            beta == IF cfg.prioritized_memory
                    THEN get_beta(episode, BetaDefaults[1], BetaDefaults[2],
                                  BetaDefaults[3])
                    ELSE 0
        IN  /\ memory' = mem
            /\ t_step' = t
            /\ IF ShouldLearn(t, Len(mem), cfg.batch_size)
               THEN IF cfg.prioritized_memory
                       /\ GetBetaRaises(cfg.prioritized_memory)
                    THEN \* get_beta(episode) raised: step ends here
                         /\ last' = [NoCall EXCEPT !.op = "step", !.raised = TRUE]
                         /\ priorities' = pri
                         /\ UNCHANGED <<losses, qnet_local, qnet_target>>
                    ELSE \E index \in SampleIndices(Len(mem), cfg.batch_size),
                            weights \in SampleWeights(cfg.prioritized_memory,
                                                      cfg.batch_size),
                            stepped \in OptimizerStep(qnet_local) :
                            Learn(mem, pri, index, weights, beta, stepped)
               ELSE /\ last' = [NoCall EXCEPT !.op = "step"]
                    /\ priorities' = pri
                    /\ UNCHANGED <<losses, qnet_local, qnet_target>>
    /\ UNCHANGED <<cfg, epsilon, disk, nacts>>

-----------------------------------------------------------------------------
(* Agent.save_model, Agent.load_model *)

SaveModel ==
    /\ disk' = [exists |-> TRUE, params |-> qnet_local]
    /\ last' = [NoCall EXCEPT !.op = "save_model"]
    /\ UNCHANGED <<cfg, epsilon, t_step, memory, priorities, losses, qnet_local,
                   qnet_target, nacts, nsteps>>

\* The parameters of the local estimator after load_model read checkpoint.
LoadedParams(local, checkpoint) == checkpoint

\* Mutant of TargetAfterLoad: the checkpoint loaded into the target too.
TargetLoadedToo(target, checkpoint) == checkpoint

\* The parameters of the target estimator after load_model.
TargetAfterLoad(target, checkpoint) == target

LoadModel ==
    /\ IF disk.exists
       THEN /\ qnet_local' = LoadedParams(qnet_local, disk.params)
            /\ qnet_target' = TargetAfterLoad(qnet_target, disk.params)
            /\ last' = [NoCall EXCEPT !.op = "load_model"]
       ELSE \* torch.load raises: nothing is loaded
            /\ UNCHANGED <<qnet_local, qnet_target>>
            /\ last' = [NoCall EXCEPT !.op = "load_model", !.raised = TRUE]
    /\ UNCHANGED <<cfg, epsilon, t_step, memory, priorities, losses, disk, nacts,
                   nsteps>>

-----------------------------------------------------------------------------
Next == Act \/ Step \/ GetBeta \/ SaveModel \/ LoadModel

Spec == Init /\ [][Next]_vars

\* act called again and again on an agent built with the defaults.
InitDefault == Constructed(Default)

ActForever == ActCall /\ UNCHANGED nacts

SpecActForever ==
    InitDefault /\ [][ActForever]_vars /\ WF_vars(ActForever)

\* get_beta called with any arguments on a newly built agent.
SpecBeta == Init /\ [][GetBetaWith]_vars

-----------------------------------------------------------------------------
(* Exploration rate *)

\* A configuration whose exploration rates are probabilities in order and
\* whose decay does not grow epsilon.
SaneEpsilon ==
    /\ 0 <= cfg.epsilon_end
    /\ cfg.epsilon_end <= cfg.epsilon_start
    /\ 0 <= cfg.epsilon_decay
    /\ cfg.epsilon_decay <= Scale

C2_DisabledGreedy ==
    ~cfg.epsilon_enabled =>
        /\ epsilon = 0
        /\ last.op = "act" => last.result = ArgMax(qnet_local[last.arg])

\* act on an agent with exploration disabled, after a learning step.
C2_Witness ==
    /\ ~cfg.epsilon_enabled
    /\ last.op = "act" /\ nacts = 2
    /\ Len(losses) > 0 /\ qnet_local # P1

-----------------------------------------------------------------------------
(* Learning cadence *)

\* A learn call appends one loss to self.losses: the learn calls of a step.
LearnCalls == Len(losses') - Len(losses)

-----------------------------------------------------------------------------
(* Learning step *)

\* The latest call was a step that learned.
Learned == last.op = "step" /\ last.learn_calls = 1

\* The square of the latest batch's i-th error, predicted minus target.
UnweightedError(i) ==
    FMul(last.Q_expected[i] - last.Q_targets[i],
         last.Q_expected[i] - last.Q_targets[i])

\* C4 as stated: in a prioritized learning step the priority handed to
\* update_priority for each sampled slot, and found in that slot afterwards,
\* is the sample's unweighted squared error plus small_eps, and the recorded
\* loss is the mean of the importance-weighted squared errors.
C4_PriorityUnweighted ==
    Learned /\ cfg.prioritized_memory =>
        /\ \A i \in DOMAIN last.index :
              /\ last.new_priorities[i] = UnweightedError(i) + cfg.small_eps
              /\ priorities[last.index[i]] = last.new_priorities[i]
        /\ losses[Len(losses)] =
              Mean([i \in DOMAIN last.index |->
                      FMul(UnweightedError(i), last.weights[i])])

\* The largest entry of a value vector.
Largest(v) ==
    CHOOSE x \in {v[a] : a \in DOMAIN v} : \A a \in DOMAIN v : v[a] <= x

\* C7: in a learning step the target of a terminal sample is its reward, and
\* the target of any other sample is its reward plus gamma times the largest
\* value the target estimator, as it was before the step, gives next_state.
C7_Targets ==
    [][Learned' /\ nsteps' # nsteps =>
        \A i \in DOMAIN last'.index :
            LET tr == memory'[last'.index[i]]
            IN  /\ tr.done = 1 => last'.Q_targets[i] = tr.reward
                /\ tr.done = 0 =>
                      last'.Q_targets[i] =
                        tr.reward
                        + FMul(cfg.gamma, Largest(qnet_target[tr.next_state]))]_vars

\* A learning step whose batch held the terminal transition of reward 5, with
\* gamma = 0.99: its target is 5.
C7_Witness ==
    /\ Learned /\ cfg.gamma = 9900
    /\ \E i \in DOMAIN last.index :
          /\ memory[last.index[i]].done = 1
          /\ memory[last.index[i]].reward = 5 * Scale
          /\ last.Q_targets[i] = 5 * Scale

\* C8: the soft update of a learning step leaves each target parameter at
\* tau * local + (1 - tau) * target, local being the parameters the optimizer
\* left, and does not change those; with tau = 1 the target equals the local
\* estimator afterwards, with tau = 0 the target is unchanged.
C8_SoftUpdate ==
    [][Learned' /\ nsteps' # nsteps =>
        /\ qnet_local' = last'.stepped
        /\ \A s \in States : \A a \in ActionIds :
              qnet_target'[s][a] =
                FMul(cfg.tau, qnet_local'[s][a])
                + FMul(Scale - cfg.tau, qnet_target[s][a])
        /\ cfg.tau = Scale => qnet_target' = qnet_local'
        /\ cfg.tau = 0 => qnet_target' = qnet_target]_vars

\* After a learning step with tau = 1 the target is the local estimator, and
\* no longer the one it was constructed with.
C8_Witness ==
    /\ Learned /\ cfg.tau = Scale
    /\ qnet_target = qnet_local /\ qnet_target # P1

\* C10 as stated: the target parameters change only in a step that learns,
\* which soft-updates them once from the local parameters the optimizer left,
\* and the local parameters change only in a step that learns.
C10_OnlyLearnChangesParams ==
    [][/\ qnet_target' # qnet_target => LearnCalls = 1
       /\ LearnCalls = 1 =>
             qnet_target' = soft_update(qnet_target, qnet_local', cfg.tau).qnet_target
       /\ qnet_local' # qnet_local => LearnCalls = 1]_vars

\* C10, amended: as stated, except that the local parameters change only in a
\* step that learns or in load_model.
C10_OnlyLearnOrLoadChangesParams ==
    [][/\ qnet_target' # qnet_target => LearnCalls = 1
       /\ LearnCalls = 1 =>
             qnet_target' = soft_update(qnet_target, qnet_local', cfg.tau).qnet_target
       /\ qnet_local' # qnet_local =>
             LearnCalls = 1 \/ (last'.op = "load_model" /\ ~last'.raised)]_vars

\* load_model after a learning step: the local estimator holds the
\* checkpoint, the target does not.
C10_Witness ==
    /\ last.op = "load_model" /\ ~last.raised
    /\ Len(losses) > 0
    /\ qnet_local = disk.params /\ qnet_target # qnet_local

-----------------------------------------------------------------------------
(* Beta schedule *)

\* The latest call was get_beta and returned a value.
BetaReturned == last.op = "get_beta" /\ ~last.raised

\* get_beta of the episode before the latest call's, same arguments.
BetaBefore == get_beta(last.arg - 1, last.args[1], last.args[2], last.args[3])

\* C5: get_beta raises exactly when the agent has no prioritized memory; a
\* call that raises returns no value and leaves epsilon, the step counter,
\* the memory, the loss history and the estimators as they were.
C5_GetBetaFailsLoudly ==
    /\ [](last.op = "get_beta" =>
            /\ last.raised <=> ~cfg.prioritized_memory
            /\ last.raised => last.result = 0)
    /\ [][last'.op = "get_beta" /\ last'.raised =>
            UNCHANGED <<epsilon, t_step, memory, priorities, losses,
                        qnet_local, qnet_target>>]_vars

\* get_beta has raised on an agent with a uniform memory that has learned.
C5_Witness ==
    /\ ~cfg.prioritized_memory
    /\ last.op = "get_beta" /\ last.raised /\ last.arg = MaxEpisode
    /\ Len(losses) > 0 /\ nacts > 0

====
